---- MODULE Spec2Model ----
(***************************************************************************)
(* Model of src/tracking_server.py: the Flask handlers track_email,        *)
(* test_tracking and track_link_click, and the listing handlers            *)
(* view_stats, get_recipient_stats, debug_database and view_link_stats,    *)
(* over the two SQLite files email_tracking.db and link_tracking.db.       *)
(*                                                                         *)
(* Flask's development server handles each request on a thread of its own, *)
(* so handlers interleave at every statement that touches shared state.    *)
(* Each handler opens a connection of its own.  The sqlite3 module runs a  *)
(* SELECT outside any transaction and opens a deferred transaction before  *)
(* an UPDATE; the UPDATE takes the file's write lock, which is held until  *)
(* commit, or until the connection is discarded when the handler returns.  *)
(* Other connections read the committed rows meanwhile.                    *)
(*                                                                         *)
(* datetime.now() is modelled by a clock whose successive readings         *)
(* increase.                                                               *)
(***************************************************************************)
EXTENDS Integers, Sequences, FiniteSets, Bags, TLC

VARIABLES email_tracking, link_tracking, requests, lock, clock

vars == <<email_tracking, link_tracking, requests, lock, clock>>

(* ---------------------------------------------------------------- bounds *)

\* Number of requests the server receives in one run.
MaxReqs == 3

\* Number of rows the largest table of a listing run holds.
MaxRows == 101

(* ---------------------------------------------------------------- values *)

\* LIMIT 100 of view_stats
StatsLimit == 100

\* LIMIT 100 of view_link_stats
LinkStatsLimit == 100

\* Python's None, SQL's NULL.
None == <<>>

\* A non-NULL column value, a present header value.
Some(v) == <<v>>

TRACKING_PIXEL == "47494638396101000100800000000000000000000021f90401000000002c00000000010001000002024401003b"

\* Identifiers a request path can carry: "t0" and "l0" have no row.
StoredTrackingIds == {"t1", "t2"}

TrackingIds == StoredTrackingIds \cup {"t0"}

StoredLinkIds == {"l1", "l2"}

LinkIds == StoredLinkIds \cup {"l0"}

\* What the transport supplies: the User-Agent header (absent or present)
\* and the peer's address.
Clients ==
    { [header |-> None, remote_addr |-> "203.0.113.7"],
      [header |-> Some("Mozilla/5.0"), remote_addr |-> "198.51.100.9"] }

\* request.headers.get('User-Agent', 'Unknown')
HeaderGet(header) == IF header = None THEN "Unknown" ELSE header[1]

(* ---------------------------------------------------------------- tables *)

\* A row of email_tracking as the upstream sender inserts it: open_count is
\* the column default 0, or NULL when the sender inserts NULL.  Timestamps
\* count from the server's start, so rows inserted before it have sent_at
\* at most 0.
NewTrackingRow(id, sent_at, count) ==
    [ tracking_id     |-> id,
      recipient_email |-> "a@x.com",
      subject         |-> "subject of " \o id,
      sent_at         |-> sent_at,
      opened_at       |-> None,
      open_count      |-> count,
      user_agent      |-> None,
      ip_address      |-> None ]

\* A row of link_tracking as the upstream sender inserts it.
NewLinkRow(id, created_at, count) ==
    [ link_id         |-> id,
      original_url    |-> "https://example.com/" \o id,
      email_id        |-> "t1",
      recipient_email |-> "a@x.com",
      created_at      |-> created_at,
      click_count     |-> count,
      last_clicked    |-> None,
      user_agent      |-> None,
      ip_address      |-> None ]

InitEmailTracking ==
    [ id \in StoredTrackingIds |->
        NewTrackingRow(id, IF id = "t1" THEN -1 ELSE 0, IF id = "t1" THEN Some(0) ELSE None) ]

InitLinkTracking ==
    [ id \in StoredLinkIds |->
        NewLinkRow(id, IF id = "l1" THEN -1 ELSE 0, IF id = "l1" THEN Some(0) ELSE None) ]

\* Tables of n rows, the way the upstream sender fills them: identifiers
\* t1 .. tn and l1 .. ln, inserted one after another, all for one recipient.
\* With n = 2 these are the tables above.
EmailTrackingOf(n) ==
    [ id \in {"t" \o ToString(i) : i \in 1..n} |->
        LET i == CHOOSE j \in 1..n : "t" \o ToString(j) = id
        IN  NewTrackingRow(id, i - n, IF i % 2 = 1 THEN Some(0) ELSE None) ]

LinkTrackingOf(n) ==
    [ id \in {"l" \o ToString(i) : i \in 1..n} |->
        LET i == CHOOSE j \in 1..n : "l" \o ToString(j) = id
        IN  NewLinkRow(id, i - n, IF i % 2 = 1 THEN Some(0) ELSE None) ]

(* -------------------------------------------------------------- requests *)

Routes == {"track", "test-tracking", "click"}

\* The database file a route's handler connects to.
Database(route) == IF route = "click" THEN "link_tracking.db" ELSE "email_tracking.db"

Databases == {"email_tracking.db", "link_tracking.db"}

\* A request and its handler's locals.  requests is the bag of the requests
\* received so far, in flight or answered.
\*   outcome: "updated", "notfound", "store_error" (sqlite3 raised) or
\*       "type_error" (click_count + 1 raised)
\*   pc: "parameters", "update", "commit", "return" (the statement the
\*       handler is about to run) or "done" (the handler has returned)
\*   count: open_count (after "or 0") or click_count, as fetched
\*   now: the value datetime.now() returned
\*   rows: what fetchall() returned to a listing handler
BlankRequest ==
    [ route        |-> "",
      id           |-> "",
      user_agent   |-> "",
      ip_address   |-> "",
      pc           |-> "",
      original_url |-> "",
      count        |-> None,
      now          |-> 0,
      outcome      |-> "",
      rows         |-> <<>>,
      resp         |-> [status |-> 0, mimetype |-> "", body |-> "", location |-> ""] ]

Init ==
    /\ email_tracking = InitEmailTracking
    /\ link_tracking = InitLinkTracking
    /\ requests = EmptyBag
    /\ lock = [db \in Databases |-> FALSE]
    /\ clock = 1

\* A server whose tables hold no row, two rows, as many rows as a listing's
\* LIMIT, or more.
InitStats ==
    /\ \E n \in {0, 2, StatsLimit, MaxRows} :
         /\ email_tracking = EmailTrackingOf(n)
         /\ link_tracking = LinkTrackingOf(n)
    /\ requests = EmptyBag
    /\ lock = [db \in Databases |-> FALSE]
    /\ clock = 1

(* --------------------------------------------------------------- queries *)

\* Mutant: the SELECT without its WHERE clause returns the first row of the
\* table whatever the identifier.
SelectOpenCount_NoWhere(id) ==
    <<email_tracking[CHOOSE k \in DOMAIN email_tracking : TRUE].open_count>>

\* SELECT open_count FROM email_tracking WHERE tracking_id = ?  ; fetchone()
SelectOpenCount(id) ==
    IF id \in DOMAIN email_tracking
    THEN <<email_tracking[id].open_count>>
    ELSE None

\* Mutant: the SELECT without its WHERE clause returns the first row of the
\* table whatever the identifier.
SelectLink_NoWhere(id) ==
    LET k == CHOOSE x \in DOMAIN link_tracking : TRUE
    IN  <<link_tracking[k].original_url, link_tracking[k].click_count>>

\* SELECT original_url, click_count FROM link_tracking WHERE link_id = ?  ; fetchone()
SelectLink(id) ==
    IF id \in DOMAIN link_tracking
    THEN <<link_tracking[id].original_url, link_tracking[id].click_count>>
    ELSE None

\* Mutant: result[0] or 1
OrZero_OrOne(column) == IF column = None \/ column = Some(0) THEN 1 ELSE column[1]

\* result[0] or 0
OrZero(column) == IF column = None \/ column = Some(0) THEN 0 ELSE column[1]

\* Mutant: the counter is written back as read.
NewOpenCount_NoIncrement(open_count) == open_count

\* Mutant: an open is counted twice.
NewOpenCount_Twice(open_count) == open_count + 2

\* The open_count parameter of the UPDATE: open_count + 1.
NewOpenCount(open_count) == open_count + 1

\* click_count + 1 raises TypeError when click_count is None.
ClickCountRaises(click_count) == click_count = None

\* The click_count parameter of the UPDATE: click_count + 1.
NewClickCount(click_count) == click_count[1] + 1

\* Mutant: the statement replaces the table's contents by the updated row.
UpdateEmailTracking_ReplaceTable(table, id, opened_at, open_count, user_agent, ip_address) ==
    [ k \in {id} |->
        [ table[k] EXCEPT !.opened_at  = Some(opened_at),
                          !.open_count = Some(open_count),
                          !.user_agent = Some(user_agent),
                          !.ip_address = Some(ip_address) ] ]

\* Mutant: opened_at is set by the first open only.
UpdateEmailTracking_FirstOpenOnly(table, id, opened_at, open_count, user_agent, ip_address) ==
    [ k \in DOMAIN table |->
        IF k = id
        THEN [ table[k] EXCEPT !.opened_at  = IF @ = None THEN Some(opened_at) ELSE @,
                               !.open_count = Some(open_count),
                               !.user_agent = Some(user_agent),
                               !.ip_address = Some(ip_address) ]
        ELSE table[k] ]

\* UPDATE email_tracking SET opened_at, open_count, user_agent, ip_address
\* WHERE tracking_id = ?
UpdateEmailTracking(table, id, opened_at, open_count, user_agent, ip_address) ==
    [ k \in DOMAIN table |->
        IF k = id
        THEN [ table[k] EXCEPT !.opened_at  = Some(opened_at),
                               !.open_count = Some(open_count),
                               !.user_agent = Some(user_agent),
                               !.ip_address = Some(ip_address) ]
        ELSE table[k] ]

\* Mutant: the UPDATE without its WHERE clause writes every row.
UpdateLinkTracking_NoWhere(table, id, click_count, last_clicked, user_agent, ip_address) ==
    [ k \in DOMAIN table |->
        [ table[k] EXCEPT !.click_count  = Some(click_count),
                          !.last_clicked = Some(last_clicked),
                          !.user_agent   = Some(user_agent),
                          !.ip_address   = Some(ip_address) ] ]

\* UPDATE link_tracking SET click_count, last_clicked, user_agent, ip_address
\* WHERE link_id = ?
UpdateLinkTracking(table, id, click_count, last_clicked, user_agent, ip_address) ==
    [ k \in DOMAIN table |->
        IF k = id
        THEN [ table[k] EXCEPT !.click_count  = Some(click_count),
                               !.last_clicked = Some(last_clicked),
                               !.user_agent   = Some(user_agent),
                               !.ip_address   = Some(ip_address) ]
        ELSE table[k] ]

(* -------------------------------------------------------------- listings *)

\* The order of two column values: NULL sorts below every value.
Below(a, b) == IF a = None THEN b # None ELSE b # None /\ a[1] < b[1]

\* ORDER BY c1 DESC, c2 DESC, ...: the row with columns k1 comes ahead of the
\* row with columns k2.
SortsBefore(k1, k2) ==
    \E i \in 1..Len(k1) :
        /\ \A j \in 1..(i - 1) : k1[j] = k2[j]
        /\ Below(k2[i], k1[i])

\* The keys ids in the descending order of their rows' columns.  (Rows the
\* clause does not tell apart come in an order SQLite chooses; the tables
\* here hold none.)
OrderByDesc(ids, columns) ==
    LET rank == {<<x, Cardinality({y \in ids : SortsBefore(columns[y], columns[x])})>> : x \in ids}
    IN  [k \in 1..Cardinality(ids) |-> (CHOOSE p \in rank : p[2] = k - 1)[1]]

\* LIMIT n
Limit(seq, n) == IF Len(seq) > n THEN SubSeq(seq, 1, n) ELSE seq

\* ORDER BY sent_at DESC
BySentAtDesc(ids) ==
    OrderByDesc(ids, [x \in ids |-> <<Some(email_tracking[x].sent_at)>>])

\* ORDER BY last_clicked DESC, created_at DESC: rows never clicked come last.
ByLastClickedDesc(ids) ==
    OrderByDesc(ids, [x \in ids |-> <<link_tracking[x].last_clicked,
                                       Some(link_tracking[x].created_at)>>])

\* view_stats: SELECT recipient_email, subject, sent_at, opened_at,
\* open_count, user_agent FROM email_tracking ORDER BY sent_at DESC LIMIT 100
SelectStats ==
    LET ids == Limit(BySentAtDesc(DOMAIN email_tracking), StatsLimit)
    IN  [ k \in 1..Len(ids) |->
            LET row == email_tracking[ids[k]]
            IN  <<row.recipient_email, row.subject, row.sent_at, row.opened_at,
                  row.open_count, row.user_agent>> ]

\* get_recipient_stats: SELECT tracking_id, subject, sent_at, opened_at,
\* open_count FROM email_tracking WHERE recipient_email = ? ORDER BY sent_at
\* DESC, and the dictionary built from each row.
SelectRecipientStats(recipient_email) ==
    LET ids == BySentAtDesc({id \in DOMAIN email_tracking :
                                email_tracking[id].recipient_email = recipient_email})
    IN  [ k \in 1..Len(ids) |->
            LET row == email_tracking[ids[k]]
            IN  [ tracking_id |-> row.tracking_id,
                  subject     |-> row.subject,
                  sent_at     |-> row.sent_at,
                  opened_at   |-> row.opened_at,
                  open_count  |-> OrZero(row.open_count) ] ]

\* debug_database: SELECT * FROM email_tracking ORDER BY sent_at DESC
SelectAllRecords ==
    LET ids == BySentAtDesc(DOMAIN email_tracking)
    IN  [k \in 1..Len(ids) |-> email_tracking[ids[k]]]

\* view_link_stats: SELECT recipient_email, original_url, click_count,
\* last_clicked, created_at FROM link_tracking ORDER BY last_clicked DESC,
\* created_at DESC LIMIT 100
SelectLinkStats ==
    LET ids == Limit(ByLastClickedDesc(DOMAIN link_tracking), LinkStatsLimit)
    IN  [ k \in 1..Len(ids) |->
            LET row == link_tracking[ids[k]]
            IN  <<row.recipient_email, row.original_url, row.click_count,
                  row.last_clicked, row.created_at>> ]

(* ------------------------------------------------------------- responses *)

\* Response(TRACKING_PIXEL, mimetype='image/gif')
PixelResponse ==
    [status |-> 200, mimetype |-> "image/gif", body |-> TRACKING_PIXEL, location |-> ""]

\* redirect(original_url)
Redirect(url) ==
    [status |-> 302, mimetype |-> "text/html", body |-> "", location |-> url]

\* A string, or a (string, status) pair, returned from a view.
Text(body, status) ==
    [status |-> status, mimetype |-> "text/html", body |-> body, location |-> ""]

\* Mutant: an unknown tracking identifier is reported to the caller.
TrackEmailReturn_NotFound(outcome) ==
    IF outcome = "notfound"
    THEN [status |-> 404, mimetype |-> "text/html", body |-> "Not found", location |-> ""]
    ELSE [status |-> 200, mimetype |-> "image/gif", body |-> TRACKING_PIXEL, location |-> ""]

\* track_email returns the pixel after the try block, whatever happened in it.
TrackEmailReturn(outcome) == PixelResponse

\* Mutant: the except clause answers like the not-found branch.
TrackLinkClickReturn_ErrorAsNotFound(outcome, original_url) ==
    IF outcome = "updated"
    THEN [status |-> 302, mimetype |-> "text/html", body |-> "", location |-> original_url]
    ELSE [status |-> 404, mimetype |-> "text/html", body |-> "Link not found", location |-> ""]

\* Mutant: the except clause redirects when the destination is known.
TrackLinkClickReturn_RedirectInExcept(outcome, original_url) ==
    CASE outcome = "notfound" ->
            [status |-> 404, mimetype |-> "text/html", body |-> "Link not found", location |-> ""]
      [] outcome # "notfound" /\ original_url # "" ->
            [status |-> 302, mimetype |-> "text/html", body |-> "", location |-> original_url]
      [] OTHER ->
            [status |-> 500, mimetype |-> "text/html", body |-> "Error processing link", location |-> ""]

\* track_link_click: redirect after the commit, 404 on no row, 500 in except.
TrackLinkClickReturn(outcome, original_url) ==
    CASE outcome = "updated"  -> Redirect(original_url)
      [] outcome = "notfound" -> Text("Link not found", 404)
      [] OTHER                -> Text("Error processing link", 500)

\* test_tracking: an HTML page for each of the three outcomes.
TestTrackingReturn(outcome) ==
    CASE outcome = "updated"  -> Text("Successfully updated tracking", 200)
      [] outcome = "notfound" -> Text("Tracking ID not found", 200)
      [] OTHER                -> Text("Test Error", 200)

\* The response a handler returns for an outcome.
Return(route, outcome, original_url) ==
    CASE route = "track" -> TrackEmailReturn(outcome)
      [] route = "click" -> TrackLinkClickReturn(outcome, original_url)
      [] OTHER           -> TestTrackingReturn(outcome)

(* --------------------------------------------------------------- actions *)

InFlight == {q \in BagToSet(requests) : q.pc # "done"}

\* The handler has returned: its locals are gone.  What is left of the
\* request is its route and identifier, its outcome, the response sent and,
\* when it updated the row, the event it wrote (timestamp, user agent,
\* address).
Returned(q, outcome) ==
    [ BlankRequest EXCEPT
        !.route      = q.route,
        !.id         = q.id,
        !.pc         = "done",
        !.outcome    = outcome,
        !.user_agent = IF outcome = "updated" THEN q.user_agent ELSE "",
        !.ip_address = IF outcome = "updated" THEN q.ip_address ELSE "",
        !.now        = IF outcome = "updated" THEN q.now ELSE 0,
        !.resp       = Return(q.route, outcome, q.original_url) ]

\* The handler's locals once fetchone() has returned a row:
\* open_count = result[0] or 0, or original_url, click_count = result.
Fetched(q, result) ==
    IF q.route = "click"
    THEN [q EXCEPT !.pc = "parameters", !.original_url = result[1], !.count = result[2]]
    ELSE [q EXCEPT !.pc = "parameters", !.count = Some(OrZero(result[1]))]

\* The handler up to its branch on the SELECT's result: the metadata are
\* read, sqlite3.connect(...), cursor.execute('SELECT ...'),
\* result = cursor.fetchone().  With no row the handler closes the
\* connection and returns; when connect or the SELECT raises, the except
\* clause returns.
Handle(route, id, user_agent, ip_address, raises) ==
    LET q      == [ BlankRequest EXCEPT !.route      = route,
                                        !.id         = id,
                                        !.user_agent = user_agent,
                                        !.ip_address = ip_address ]
        result == IF route = "click" THEN SelectLink(id) ELSE SelectOpenCount(id)
    IN  IF raises THEN Returned(q, "store_error")
        ELSE IF result # None THEN Fetched(q, result)
        ELSE Returned(q, "notfound")

\* GET /track/<tracking_id>
ReceiveTrack ==
    /\ BagCardinality(requests) < MaxReqs
    /\ \E id \in TrackingIds, c \in Clients, raises \in BOOLEAN :
         requests' = requests (+)
            SetToBag({Handle("track", id, HeaderGet(c.header), c.remote_addr, raises)})
    /\ UNCHANGED <<email_tracking, link_tracking, lock, clock>>

\* GET /test-tracking/<tracking_id>: the metadata are the handler's literals.
ReceiveTestTracking ==
    /\ BagCardinality(requests) < MaxReqs
    /\ \E id \in TrackingIds, raises \in BOOLEAN :
         requests' = requests (+)
            SetToBag({Handle("test-tracking", id, "Test Browser", "127.0.0.1", raises)})
    /\ UNCHANGED <<email_tracking, link_tracking, lock, clock>>

\* GET /click/<link_id>
ReceiveClick ==
    /\ BagCardinality(requests) < MaxReqs
    /\ \E id \in LinkIds, c \in Clients, raises \in BOOLEAN :
         requests' = requests (+)
            SetToBag({Handle("click", id, HeaderGet(c.header), c.remote_addr, raises)})
    /\ UNCHANGED <<email_tracking, link_tracking, lock, clock>>

\* Request q moves on to q2.
Step(q, q2) == requests' = (requests (-) SetToBag({q})) (+) SetToBag({q2})

\* The UPDATE's parameter tuple is evaluated before execute() is entered:
\* the new counter, then datetime.now().  A TypeError from click_count + 1
\* is caught by the except clause, which returns.
Parameters(q) ==
    /\ q.pc = "parameters"
    /\ IF q.route = "click" /\ ClickCountRaises(q.count)
       THEN /\ Step(q, Returned(q, "type_error"))
            /\ UNCHANGED clock
       ELSE /\ Step(q, [q EXCEPT !.pc = "update", !.now = clock])
            /\ clock' = clock + 1
    /\ UNCHANGED <<email_tracking, link_tracking, lock>>

\* cursor.execute('UPDATE ...'): the connection begins a transaction and
\* takes the file's write lock; it waits while another connection holds it.
Update(q) ==
    /\ q.pc = "update"
    /\ ~lock[Database(q.route)]
    /\ lock' = [lock EXCEPT ![Database(q.route)] = TRUE]
    /\ Step(q, [q EXCEPT !.pc = "commit"])
    /\ UNCHANGED <<email_tracking, link_tracking, clock>>

\* The table after the request's UPDATE is committed.
CommittedEmailTracking(q) ==
    UpdateEmailTracking(email_tracking, q.id, q.now, NewOpenCount(q.count[1]),
                        q.user_agent, q.ip_address)

CommittedLinkTracking(q) ==
    UpdateLinkTracking(link_tracking, q.id, NewClickCount(q.count), q.now,
                       q.user_agent, q.ip_address)

\* conn.commit(): the transaction's write becomes the stored row and the
\* lock is released.
Commit(q) ==
    /\ q.pc = "commit"
    /\ IF q.route = "click"
       THEN /\ link_tracking' = CommittedLinkTracking(q)
            /\ UNCHANGED email_tracking
       ELSE /\ email_tracking' = CommittedEmailTracking(q)
            /\ UNCHANGED link_tracking
    /\ lock' = [lock EXCEPT ![Database(q.route)] = FALSE]
    /\ Step(q, [q EXCEPT !.pc = "return"])
    /\ UNCHANGED clock

\* After the commit: conn.close() and the handler's return statement.
Respond(q) ==
    /\ q.pc = "return"
    /\ Step(q, Returned(q, "updated"))
    /\ UNCHANGED <<email_tracking, link_tracking, lock, clock>>

\* Mutant: the connection writes through at once (autocommit), so that a
\* failing commit leaves the UPDATE applied.
Raise_WriteThrough(q) ==
    /\ q.pc \in {"update", "commit"}
    /\ Step(q, Returned(q, "store_error"))
    /\ lock' = IF q.pc = "commit"
               THEN [lock EXCEPT ![Database(q.route)] = FALSE]
               ELSE lock
    /\ IF q.pc = "commit" /\ q.route = "click"
       THEN link_tracking' = CommittedLinkTracking(q) /\ UNCHANGED email_tracking
       ELSE IF q.pc = "commit"
       THEN email_tracking' = CommittedEmailTracking(q) /\ UNCHANGED link_tracking
       ELSE UNCHANGED <<email_tracking, link_tracking>>
    /\ UNCHANGED clock

\* The UPDATE (also: its wait for the lock timing out) or the commit
\* raises.  The except clause returns the handler's response; the
\* connection is discarded, which rolls back a transaction left open by a
\* failed commit and frees the lock.
Raise(q) ==
    /\ q.pc \in {"update", "commit"}
    /\ Step(q, Returned(q, "store_error"))
    /\ lock' = IF q.pc = "commit"
               THEN [lock EXCEPT ![Database(q.route)] = FALSE]
               ELSE lock
    /\ UNCHANGED <<email_tracking, link_tracking, clock>>

\* A listing handler has returned: its request, the rows it fetched and its
\* response.
Listed(route, id, outcome, rows, resp) ==
    [ BlankRequest EXCEPT !.route = route, !.id = id, !.pc = "done",
                          !.outcome = outcome, !.rows = rows, !.resp = resp ]

\* The recipients a request path of /api/stats can carry.
Recipients == {"a@x.com", "nobody@x.com"}

\* Flask's answer to a view that raised.
InternalServerError == Text("Internal Server Error", 500)

\* GET /stats: the handler connects, runs its SELECT, fetches all rows,
\* closes the connection and returns the page built from the rows.  It has
\* no except clause.
ViewStats ==
    /\ BagCardinality(requests) < MaxReqs
    /\ \E raises \in BOOLEAN :
         requests' = requests (+) SetToBag({
            IF raises
            THEN Listed("stats", "", "store_error", <<>>, InternalServerError)
            ELSE Listed("stats", "", "listed", SelectStats,
                        Text("Email Tracking Statistics", 200)) })
    /\ UNCHANGED <<email_tracking, link_tracking, lock, clock>>

\* GET /api/stats/<recipient_email>: returns the dictionary
\* {'recipient': ..., 'emails': [...]}, which Flask sends as JSON.
GetRecipientStats ==
    /\ BagCardinality(requests) < MaxReqs
    /\ \E recipient_email \in Recipients, raises \in BOOLEAN :
         requests' = requests (+) SetToBag({
            IF raises
            THEN Listed("api-stats", recipient_email, "store_error", <<>>,
                        InternalServerError)
            ELSE Listed("api-stats", recipient_email, "listed",
                        SelectRecipientStats(recipient_email),
                        [status |-> 200, mimetype |-> "application/json",
                         body |-> recipient_email, location |-> ""]) })
    /\ UNCHANGED <<email_tracking, link_tracking, lock, clock>>

\* GET /debug: every record of email_tracking; the except clause returns an
\* error page.
DebugDatabase ==
    /\ BagCardinality(requests) < MaxReqs
    /\ \E raises \in BOOLEAN :
         requests' = requests (+) SetToBag({
            IF raises
            THEN Listed("debug", "", "store_error", <<>>, Text("Debug Error", 200))
            ELSE Listed("debug", "", "listed", SelectAllRecords,
                        Text("Database Debug", 200)) })
    /\ UNCHANGED <<email_tracking, link_tracking, lock, clock>>

\* GET /link-stats
ViewLinkStats ==
    /\ BagCardinality(requests) < MaxReqs
    /\ \E raises \in BOOLEAN :
         requests' = requests (+) SetToBag({
            IF raises
            THEN Listed("link-stats", "", "store_error", <<>>, InternalServerError)
            ELSE Listed("link-stats", "", "listed", SelectLinkStats,
                        Text("Link Tracking Statistics", 200)) })
    /\ UNCHANGED <<email_tracking, link_tracking, lock, clock>>

\* The server: requests on all routes, handled concurrently.
Next ==
    \/ ReceiveTrack
    \/ ReceiveTestTracking
    \/ ReceiveClick
    \/ \E q \in InFlight : Parameters(q)
    \/ \E q \in InFlight : Update(q)
    \/ \E q \in InFlight : Commit(q)
    \/ \E q \in InFlight : Respond(q)
    \/ \E q \in InFlight : Raise(q)
    \/ ViewStats
    \/ GetRecipientStats
    \/ DebugDatabase
    \/ ViewLinkStats

Spec == Init /\ [][Next]_vars

\* The open pipeline alone: requests on /track and /test-tracking.
NextTrack ==
    \/ ReceiveTrack
    \/ ReceiveTestTracking
    \/ \E q \in InFlight : Parameters(q)
    \/ \E q \in InFlight : Update(q)
    \/ \E q \in InFlight : Commit(q)
    \/ \E q \in InFlight : Respond(q)
    \/ \E q \in InFlight : Raise(q)

SpecTrack == Init /\ [][NextTrack]_vars

\* The click pipeline alone: requests on /click.
NextClick ==
    \/ ReceiveClick
    \/ \E q \in InFlight : Parameters(q)
    \/ \E q \in InFlight : Update(q)
    \/ \E q \in InFlight : Commit(q)
    \/ \E q \in InFlight : Respond(q)
    \/ \E q \in InFlight : Raise(q)

SpecClick == Init /\ [][NextClick]_vars

\* Requests handled one after another: a request arrives only when every
\* earlier one has been answered.
NextSeq ==
    \/ InFlight = {} /\ ReceiveTrack
    \/ InFlight = {} /\ ReceiveTestTracking
    \/ InFlight = {} /\ ReceiveClick
    \/ \E q \in InFlight : Parameters(q)
    \/ \E q \in InFlight : Update(q)
    \/ \E q \in InFlight : Commit(q)
    \/ \E q \in InFlight : Respond(q)
    \/ \E q \in InFlight : Raise(q)
    \/ InFlight = {} /\ ViewStats
    \/ InFlight = {} /\ GetRecipientStats
    \/ InFlight = {} /\ DebugDatabase
    \/ InFlight = {} /\ ViewLinkStats

SpecSeq == Init /\ [][NextSeq]_vars

\* The two pipelines share no table, no file and no lock, so their steps
\* commute.  Here they take turns: open requests are received while no
\* click is in flight, and clicks while no open request is; the requests of
\* one pipeline interleave freely.
NextEither ==
    \/ (\A q \in InFlight : q.route # "click") /\ ReceiveTrack
    \/ (\A q \in InFlight : q.route # "click") /\ ReceiveTestTracking
    \/ (\A q \in InFlight : q.route = "click") /\ ReceiveClick
    \/ \E q \in InFlight : Parameters(q)
    \/ \E q \in InFlight : Update(q)
    \/ \E q \in InFlight : Commit(q)
    \/ \E q \in InFlight : Respond(q)
    \/ \E q \in InFlight : Raise(q)

SpecEither == Init /\ [][NextEither]_vars

\* The listing handlers alone, over tables of several sizes.
NextStats ==
    \/ ViewStats
    \/ GetRecipientStats
    \/ DebugDatabase
    \/ ViewLinkStats

SpecStats == InitStats /\ [][NextStats]_vars

(* ---------------------------------------------------------------- claims *)

Received == BagToSet(requests)

Answered == {q \in Received : q.pc = "done"}

\* The number of received requests (with multiplicity) that satisfy P.
NumberOf(P(_)) ==
    BagCardinality([q \in {x \in Received : P(x)} |-> CopiesIn(q, requests)])

\* Requests of the open pipeline, or of the click pipeline, for one identifier.
OpenFor(q, id) == q.route \in {"track", "test-tracking"} /\ q.id = id

ClickFor(q, id) == q.route = "click" /\ q.id = id

\* The request's UPDATE has been committed.
Committed(q) == q.pc = "return" \/ (q.pc = "done" /\ q.outcome = "updated")

\* Every request for the identifier is a completed /track request that met
\* no error.
OnlyTrackUpdated(id) ==
    \A q \in Received : OpenFor(q, id) => q.route = "track" /\ q.pc = "done" /\ q.outcome = "updated"

\* C1: when the M requests GET /track/<id> received for an existing record
\* with open count c have all completed without a store error, whatever
\* their interleaving, the stored open count is c + M.
C1_NoLostOpens ==
    \A id \in StoredTrackingIds :
        OnlyTrackUpdated(id) =>
            OrZero(email_tracking[id].open_count)
                = OrZero(InitEmailTracking[id].open_count)
                    + NumberOf(LAMBDA q : OpenFor(q, id))

\* C2: when the M requests GET /click/<id> received for an existing link
\* record with click count c have all been answered with a redirect,
\* whatever their interleaving, the stored click count is c + M.
C2_NoLostClicks ==
    \A id \in StoredLinkIds :
        (\A q \in Received : ClickFor(q, id) => q.pc = "done" /\ q.resp.status = 302) =>
            OrZero(link_tracking[id].click_count)
                = OrZero(InitLinkTracking[id].click_count)
                    + NumberOf(LAMBDA q : ClickFor(q, id))

\* The timestamp of the last of the requests for id that updated the row:
\* the largest reading of the clock among them.
LastTimestamp(id) ==
    LET ts == {q.now : q \in {x \in Received : OpenFor(x, id) /\ Committed(x)}}
    IN  CHOOSE t \in ts : \A u \in ts : u <= t

\* C3: a record created with open count 0 (or unset) and opened timestamp
\* null, after N requests GET /track/<id> handled one after another with no
\* store failure, has open count N and the opened timestamp the N-th
\* request took.
C3_SequentialOpens ==
    \A id \in StoredTrackingIds :
        LET N == NumberOf(LAMBDA q : OpenFor(q, id))
        IN  (OnlyTrackUpdated(id) /\ N > 0) =>
                /\ email_tracking[id].open_count = Some(N)
                /\ email_tracking[id].opened_at = Some(LastTimestamp(id))

\* C3 witness: three sequential opens of one record have been applied.
C3_Witness ==
    \E id \in StoredTrackingIds :
        /\ OnlyTrackUpdated(id)
        /\ NumberOf(LAMBDA q : OpenFor(q, id)) = 3
        /\ email_tracking[id].open_count = Some(3)

\* C4: every request GET /track/<id> is answered with TRACKING_PIXEL as
\* image/gif, whether the record was updated, was not found, or the store
\* raised.
C4_AlwaysPixel ==
    \A q \in Answered :
        q.route = "track" =>
            /\ q.outcome \in {"updated", "notfound", "store_error"}
            /\ q.resp.status = 200
            /\ q.resp.mimetype = "image/gif"
            /\ q.resp.body = TRACKING_PIXEL

\* C4 witness: /track requests with each of the three outcomes have been
\* answered.
C4_Witness ==
    \A o \in {"updated", "notfound", "store_error"} :
        \E q \in Answered : q.route = "track" /\ q.outcome = o /\ q.resp.status = 200

\* C5: requests GET /track/<id> for an identifier with no record create no
\* record and modify none: they are answered with the pixel straight
\* away, the set of stored identifiers never changes, and a row changes only
\* in the commit of a request for that row's own identifier.
C5_UnknownOpenNoEffect ==
    [][ /\ DOMAIN email_tracking' = DOMAIN email_tracking
        /\ \A q \in BagToSet(requests') :
             (q.route = "track" /\ q.id \notin DOMAIN email_tracking) =>
                /\ q.pc = "done"
                /\ q.outcome \in {"notfound", "store_error"}
                /\ q.resp = PixelResponse
        /\ \A id \in DOMAIN email_tracking :
             email_tracking'[id] # email_tracking[id] =>
                \E q \in InFlight :
                    /\ OpenFor(q, id)
                    /\ q.pc = "commit"
                    /\ Step(q, [q EXCEPT !.pc = "return"]) ]_vars

\* C5 witness: two requests for the unknown identifier have been answered
\* with the pixel, as not found, and the table is as it was created.
C5_Witness ==
    /\ NumberOf(LAMBDA q : q.route = "track" /\ q.id = "t0" /\ q.outcome = "notfound"
                           /\ q.resp = PixelResponse) >= 2
    /\ email_tracking = InitEmailTracking

\* The timestamp of the last of the clicks on id that updated the row.
LastClickTimestamp(id) ==
    LET ts == {q.now : q \in {x \in Received : ClickFor(x, id) /\ Committed(x)}}
    IN  CHOOSE t \in ts : \A u \in ts : u <= t

\* C6, for one link record: every click handled alone and without store
\* failure is answered with a redirect to the stored original URL, which
\* stays as created; each such click has raised the click count by exactly 1
\* and last-clicked is the timestamp of the latest one.
ClickApplied(id) ==
    LET clicks == {q \in Answered : ClickFor(q, id) /\ q.outcome # "store_error"}
    IN  (clicks # {} /\ \A q \in Received : ClickFor(q, id) => q.pc = "done") =>
            /\ \A q \in clicks :
                 q.resp = [status |-> 302, mimetype |-> "text/html", body |-> "",
                           location |-> InitLinkTracking[id].original_url]
            /\ link_tracking[id].original_url = InitLinkTracking[id].original_url
            /\ link_tracking[id].click_count =
                 Some(OrZero(InitLinkTracking[id].click_count)
                        + NumberOf(LAMBDA q : q \in clicks))
            /\ link_tracking[id].last_clicked = Some(LastClickTimestamp(id))

\* C6: for every identifier with an existing link record, a click request
\* handled alone and without store failure increments the click count by
\* exactly 1, sets last-clicked to its timestamp and is answered with a
\* redirect to the record's unchanged original URL.
C6_ClickApplied == \A id \in StoredLinkIds : ClickApplied(id)

\* C7 as stated: every click request for an identifier with no link record
\* is answered with 404 "Link not found".
C7_UnknownClickIs404 ==
    \A q \in Answered :
        (q.route = "click" /\ q.id \notin DOMAIN link_tracking) =>
            q.resp = [status |-> 404, mimetype |-> "text/html",
                      body |-> "Link not found", location |-> ""]

\* C7 as amended: a click request for an identifier with no link record is
\* answered with 404 "Link not found", or with the 500 error response when
\* connect or the SELECT raises; either way it is answered straight away,
\* the set of stored link identifiers never changes, and a row changes only
\* in the commit of a click for that row's own identifier.
C7_UnknownClickNoEffect ==
    [][ /\ DOMAIN link_tracking' = DOMAIN link_tracking
        /\ \A q \in BagToSet(requests') :
             (q.route = "click" /\ q.id \notin DOMAIN link_tracking) =>
                /\ q.pc = "done"
                /\ q.outcome \in {"notfound", "store_error"}
                /\ q.outcome = "notfound" =>
                     q.resp = [status |-> 404, mimetype |-> "text/html",
                               body |-> "Link not found", location |-> ""]
                /\ q.outcome = "store_error" =>
                     q.resp = [status |-> 500, mimetype |-> "text/html",
                               body |-> "Error processing link", location |-> ""]
        /\ \A id \in DOMAIN link_tracking :
             link_tracking'[id] # link_tracking[id] =>
                \E q \in InFlight :
                    /\ ClickFor(q, id)
                    /\ q.pc = "commit"
                    /\ Step(q, [q EXCEPT !.pc = "return"]) ]_vars

\* C7 witness: clicks on the unknown identifier have been answered, one with
\* 404 and one with 500, and the table is as it was created.
C7_Witness ==
    /\ \E q \in Answered : ClickFor(q, "l0") /\ q.outcome = "notfound" /\ q.resp.status = 404
    /\ \E q \in Answered : ClickFor(q, "l0") /\ q.outcome = "store_error" /\ q.resp.status = 500
    /\ link_tracking = InitLinkTracking

\* C8: a click request whose store operation raised is answered with the
\* 500 error response, which is neither the redirect nor the 404 response,
\* and only such requests (and those whose counter arithmetic raised) get it.
C8_StoreErrorIs500 ==
    \A q \in Answered :
        q.route = "click" =>
            /\ q.outcome = "store_error" =>
                 /\ q.resp.status = 500
                 /\ q.resp.body = "Error processing link"
                 /\ q.resp.location = ""
            /\ q.resp.status \in {302, 404} => q.outcome \in {"updated", "notfound"}

\* C8 witness: a click on an existing record was answered 500 after a store
\* error, beside a redirected and a not-found click.
C8_Witness ==
    /\ \E q \in Answered : ClickFor(q, "l1") /\ q.outcome = "store_error" /\ q.resp.status = 500
    /\ \E q \in Answered : q.route = "click" /\ q.resp.status = 302
    /\ \E q \in Answered : q.route = "click" /\ q.resp.status = 404

\* Request q appears in this step.
Appears(q) == CopiesIn(q, requests') > CopiesIn(q, requests)

\* C9: a click request is answered with a redirect only from the point
\* after its commit, and it reaches that point in the step that stores its
\* own counter update in the link table.
C9_RedirectAfterCommit ==
    [][ \A q2 \in BagToSet(requests') :
          (q2.route = "click" /\ Appears(q2)) =>
             /\ (q2.pc = "done" /\ q2.resp.status = 302) =>
                  \E q \in InFlight : q.pc = "return" /\ Step(q, q2)
             /\ q2.pc = "return" =>
                  /\ link_tracking'[q2.id].click_count = Some(q2.count[1] + 1)
                  /\ link_tracking'[q2.id].last_clicked = Some(q2.now)
                  /\ link_tracking' # link_tracking ]_vars

\* C9 witness: a click has been answered with a redirect and the row holds
\* what it wrote.
C9_Witness ==
    \E q \in Answered :
        /\ q.route = "click"
        /\ q.resp.status = 302
        /\ link_tracking[q.id].click_count = Some(1)
        /\ link_tracking[q.id].last_clicked = Some(q.now)

\* C10: no step takes a stored open count, or a stored click count, to a
\* smaller value.
C10_CountersMonotonic ==
    [][ /\ \A id \in DOMAIN email_tracking :
             OrZero(email_tracking'[id].open_count) >= OrZero(email_tracking[id].open_count)
        /\ \A id \in DOMAIN link_tracking :
             OrZero(link_tracking'[id].click_count) >= OrZero(link_tracking[id].click_count) ]_vars

\* C11: in every reachable state a tracking record has a non-null opened
\* timestamp exactly when its open count is greater than 0, and a link
\* record has a non-null last-clicked timestamp exactly when its click
\* count is greater than 0 (an unset counter is not greater than 0).
C11_TimestampIffCounted ==
    /\ \A id \in DOMAIN email_tracking :
         (email_tracking[id].opened_at # None)
            <=> (OrZero(email_tracking[id].open_count) > 0)
    /\ \A id \in DOMAIN link_tracking :
         (link_tracking[id].last_clicked # None)
            <=> (OrZero(link_tracking[id].click_count) > 0)

\* C11 witness: the tracking record created with an unset open count has
\* been opened and carries a timestamp and a positive count, beside a record
\* never opened; a link record has been clicked, beside one never clicked.
C11_Witness ==
    /\ email_tracking["t2"].opened_at # None
    /\ OrZero(email_tracking["t2"].open_count) > 0
    /\ email_tracking["t1"].opened_at = None
    /\ email_tracking["t1"].open_count = Some(0)
    /\ link_tracking["l1"].last_clicked # None
    /\ OrZero(link_tracking["l1"].click_count) > 0
    /\ link_tracking["l2"].last_clicked = None

\* C12: every query of the stats reader returns a bounded number of records
\* and mutates nothing: /stats, /link-stats and /api/stats/<recipient> each
\* return at most a fixed maximum number of rows, however many records the
\* store holds, and both tables stay as they were.
C12_ListingsBounded ==
    /\ \A q \in Answered :
         q.route \in {"stats", "link-stats", "api-stats"} => Len(q.rows) <= StatsLimit
    /\ email_tracking = EmailTrackingOf(Cardinality(DOMAIN email_tracking))
    /\ link_tracking = LinkTrackingOf(Cardinality(DOMAIN link_tracking))

\* The fields of a tracking row, and of a link row, written when the row is
\* created.
TrackingCreationFields(row) ==
    <<row.tracking_id, row.recipient_email, row.subject, row.sent_at>>

LinkCreationFields(row) ==
    <<row.link_id, row.original_url, row.email_id, row.recipient_email, row.created_at>>

\* C13: no request changes a field written at creation: tracking_id,
\* recipient, subject and sent_at of a tracking record stay as they are under
\* open and test-tracking requests, and link_id, original_url, email_id,
\* recipient and created_at of a link record under clicks; a row changes
\* only in the commit of a request for that row's own identifier, so an
\* event for one identifier changes no field of any other record, and no
\* record of the other table.
C13_CreationFieldsFrozen ==
    [][ /\ DOMAIN email_tracking' = DOMAIN email_tracking
        /\ DOMAIN link_tracking' = DOMAIN link_tracking
        /\ \A id \in DOMAIN email_tracking :
             /\ TrackingCreationFields(email_tracking'[id])
                    = TrackingCreationFields(email_tracking[id])
             /\ email_tracking'[id] # email_tracking[id] =>
                    /\ link_tracking' = link_tracking
                    /\ \E q \in InFlight :
                          /\ OpenFor(q, id)
                          /\ q.pc = "commit"
                          /\ Step(q, [q EXCEPT !.pc = "return"])
        /\ \A id \in DOMAIN link_tracking :
             /\ LinkCreationFields(link_tracking'[id])
                    = LinkCreationFields(link_tracking[id])
             /\ link_tracking'[id] # link_tracking[id] =>
                    /\ email_tracking' = email_tracking
                    /\ \E q \in InFlight :
                          /\ ClickFor(q, id)
                          /\ q.pc = "commit"
                          /\ Step(q, [q EXCEPT !.pc = "return"]) ]_vars

\* C13 witness: a beacon open and a test-tracking call for t1 and a click on
\* l1 have been applied; the rows t1 and l1 have changed and kept their
\* creation fields, and the rows t2 and l2 are as created.
C13_Witness ==
    /\ \E q \in Answered : q.route = "track" /\ q.id = "t1" /\ q.outcome = "updated"
    /\ \E q \in Answered : q.route = "test-tracking" /\ q.id = "t1" /\ q.outcome = "updated"
    /\ \E q \in Answered : q.route = "click" /\ q.id = "l1" /\ q.outcome = "updated"
    /\ email_tracking["t1"] # InitEmailTracking["t1"]
    /\ TrackingCreationFields(email_tracking["t1"]) = TrackingCreationFields(InitEmailTracking["t1"])
    /\ link_tracking["l1"] # InitLinkTracking["l1"]
    /\ LinkCreationFields(link_tracking["l1"]) = LinkCreationFields(InitLinkTracking["l1"])
    /\ email_tracking["t2"] = InitEmailTracking["t2"]
    /\ link_tracking["l2"] = InitLinkTracking["l2"]

\* C14: whenever a tracking record has been opened, its stored opened
\* timestamp, user agent and address are those of one and the same applied
\* open event, and that event is the one with the latest timestamp among the
\* applied events for the identifier, also when requests interleave.
C14_LatestEventStored ==
    \A id \in StoredTrackingIds :
        email_tracking[id].opened_at # None =>
            \E q \in Received :
                /\ OpenFor(q, id) /\ Committed(q)
                /\ q.now = LastTimestamp(id)
                /\ email_tracking[id].opened_at = Some(q.now)
                /\ email_tracking[id].user_agent = Some(q.user_agent)
                /\ email_tracking[id].ip_address = Some(q.ip_address)

\* The request's event written to its row of the table.
OpenWritten(row, q) ==
    [ row EXCEPT !.opened_at  = Some(q.now),
                 !.open_count = Some(q.count[1] + 1),
                 !.user_agent = Some(q.user_agent),
                 !.ip_address = Some(q.ip_address) ]

ClickWritten(row, q) ==
    [ row EXCEPT !.last_clicked = Some(q.now),
                 !.click_count  = Some(q.count[1] + 1),
                 !.user_agent   = Some(q.user_agent),
                 !.ip_address   = Some(q.ip_address) ]

\* C15: an open or click event whose store operation fails before the commit
\* completes is dropped as a whole.  The step in which a request is answered
\* as failed changes no row; a row changes only in the commit of a request,
\* which writes the counter, the timestamp, the user agent and the address
\* together; a request whose commit completed is answered as updated; and an
\* answered request is never taken up again.
C15_FailedEventDropped ==
    [][ /\ \A q2 \in BagToSet(requests') :
             (Appears(q2) /\ q2.outcome \in {"store_error", "type_error"}) =>
                /\ q2.pc = "done"
                /\ email_tracking' = email_tracking
                /\ link_tracking' = link_tracking
        /\ \A id \in DOMAIN email_tracking :
             email_tracking'[id] # email_tracking[id] =>
                \E q \in InFlight :
                    /\ OpenFor(q, id) /\ q.pc = "commit"
                    /\ Step(q, [q EXCEPT !.pc = "return"])
                    /\ email_tracking'[id] = OpenWritten(email_tracking[id], q)
        /\ \A id \in DOMAIN link_tracking :
             link_tracking'[id] # link_tracking[id] =>
                \E q \in InFlight :
                    /\ ClickFor(q, id) /\ q.pc = "commit"
                    /\ Step(q, [q EXCEPT !.pc = "return"])
                    /\ link_tracking'[id] = ClickWritten(link_tracking[id], q)
        /\ \A q \in InFlight :
             (q.pc = "return" /\ CopiesIn(q, requests') < CopiesIn(q, requests)) =>
                Step(q, Returned(q, "updated"))
        /\ \A q \in Answered : CopiesIn(q, requests') >= CopiesIn(q, requests) ]_vars

\* C15 witness: an open of t1 and a click on l1 have been answered after a
\* store failure and both rows are as created, while the event of another
\* request has been applied to t2.
C15_Witness ==
    /\ \E q \in Answered : OpenFor(q, "t1") /\ q.outcome = "store_error"
    /\ \E q \in Answered : ClickFor(q, "l1") /\ q.outcome = "store_error"
    /\ email_tracking["t1"] = InitEmailTracking["t1"]
    /\ link_tracking["l1"] = InitLinkTracking["l1"]
    /\ \E q \in Answered : OpenFor(q, "t2") /\ q.outcome = "updated"
    /\ email_tracking["t2"] # InitEmailTracking["t2"]

\* The number of requests in the bag, beacon or test-tracking, for the
\* identifier whose UPDATE has been committed.
CommittedOpens(bag, id) ==
    LET qs == {q \in BagToSet(bag) : OpenFor(q, id) /\ Committed(q)}
    IN  BagCardinality([q \in qs |-> CopiesIn(q, bag)])

\* C16: no event is counted more than once, whatever the interleaving: the
\* stored open count of a record never exceeds its initial value plus the
\* number of beacon and test-tracking requests for its identifier that
\* reached commit; the count changes only in the commit of such a request,
\* which stores the value the request read plus 1.
C16_NoDoubleCount ==
    [][ \A id \in StoredTrackingIds :
          /\ OrZero(email_tracking'[id].open_count)
                <= OrZero(InitEmailTracking[id].open_count) + CommittedOpens(requests', id)
          /\ email_tracking'[id].open_count # email_tracking[id].open_count =>
                \E q \in InFlight :
                    /\ OpenFor(q, id) /\ q.pc = "commit"
                    /\ Step(q, [q EXCEPT !.pc = "return"])
                    /\ email_tracking'[id].open_count = Some(q.count[1] + 1) ]_vars

\* C16 witness: three interleaved requests for t1, beacon and test-tracking,
\* have all reached commit, and the stored open count is 2.
C16_Witness ==
    /\ CommittedOpens(requests, "t1") = 3
    /\ \E q \in Received : q.route = "track" /\ q.id = "t1"
    /\ \E q \in Received : q.route = "test-tracking" /\ q.id = "t1"
    /\ email_tracking["t1"].open_count = Some(2)

\* C17: in every reachable state the tracking table and the link table hold
\* the identifiers they held initially: no endpoint (open, click,
\* test-tracking, stats, per-recipient stats, link stats, debug) inserts or
\* deletes a record, whether the identifier it is given is known or not.
C17_NoInsertNoDelete ==
    /\ DOMAIN email_tracking = DOMAIN InitEmailTracking
    /\ DOMAIN link_tracking = DOMAIN InitLinkTracking

\* C17 witness: an open for an unknown identifier, an applied open of a known
\* one and a listing have been answered; the listing shows both records.
C17_Witness ==
    /\ \E q \in Answered : q.route = "track" /\ q.id = "t0" /\ q.outcome = "notfound"
    /\ \E q \in Answered : q.route = "test-tracking" /\ q.id = "t1" /\ q.outcome = "updated"
    /\ \E q \in Answered : q.route = "debug" /\ q.outcome = "listed" /\ Len(q.rows) = 2
    /\ DOMAIN email_tracking = {"t1", "t2"}

\* The last of the requests for id that updated the row is a test-tracking
\* call.
LastIsTestTracking(id) ==
    \E q \in Received :
        /\ OpenFor(q, id) /\ Committed(q)
        /\ q.now = LastTimestamp(id)
        /\ q.route = "test-tracking"

\* C18: GET /test-tracking/<id> is a second mutator of the tracking table.
\* The stored open count of a record is its initial value plus the number of
\* applied beacon opens plus the number of applied test-tracking calls; when
\* the latest applied event is a test-tracking call, the opened timestamp is
\* the one it took, the user agent is 'Test Browser' and the address
\* '127.0.0.1'; a record no request was applied to is as created, and a
\* test-tracking call for an unknown identifier is answered straight away.
C18_TestTrackingCounts ==
    /\ \A id \in StoredTrackingIds :
         /\ OrZero(email_tracking[id].open_count)
               = OrZero(InitEmailTracking[id].open_count)
                   + NumberOf(LAMBDA q : q.route = "track" /\ q.id = id /\ Committed(q))
                   + NumberOf(LAMBDA q : q.route = "test-tracking" /\ q.id = id /\ Committed(q))
         /\ LastIsTestTracking(id) =>
               /\ email_tracking[id].opened_at = Some(LastTimestamp(id))
               /\ email_tracking[id].user_agent = Some("Test Browser")
               /\ email_tracking[id].ip_address = Some("127.0.0.1")
         /\ (\A q \in Received : OpenFor(q, id) => ~Committed(q)) =>
               email_tracking[id] = InitEmailTracking[id]
    /\ \A q \in Received :
         (q.route = "test-tracking" /\ q.id \notin DOMAIN email_tracking) =>
            /\ q.pc = "done"
            /\ q.outcome \in {"notfound", "store_error"}

\* C19: an unset (NULL) counter is handled differently by the two pipelines.
\* An open request that finds its record's open count unset carries on with
\* open count 0, and the commit that finds the stored count unset stores 1.
\* A click that finds its record's click count unset goes no further than
\* computing click_count + 1: it is answered with the 500 error response,
\* never with a redirect, and a link record with an unset click count never
\* changes.
C19_UnsetCounter ==
    [][ /\ \A q2 \in BagToSet(requests') :
             (Appears(q2) /\ OpenFor(q2, q2.id) /\ q2.pc = "parameters"
                /\ email_tracking[q2.id].open_count = None) => q2.count = Some(0)
        /\ \A id \in DOMAIN email_tracking :
             (email_tracking[id].open_count = None
                /\ email_tracking'[id] # email_tracking[id]) =>
                    email_tracking'[id].open_count = Some(1)
        /\ \A q2 \in BagToSet(requests') :
             (Appears(q2) /\ q2.route = "click" /\ q2.id \in DOMAIN link_tracking
                /\ link_tracking[q2.id].click_count = None) =>
                    /\ q2.pc \in {"parameters", "done"}
                    /\ q2.pc = "done" =>
                          /\ q2.outcome \in {"type_error", "store_error"}
                          /\ q2.resp = [status |-> 500, mimetype |-> "text/html",
                                        body |-> "Error processing link", location |-> ""]
        /\ \A id \in DOMAIN link_tracking :
             link_tracking[id].click_count = None =>
                link_tracking'[id] = link_tracking[id] ]_vars

\* C19 witness: the tracking record with the unset open count has been opened
\* once and holds open count 1; a click on the link record with the unset
\* click count was answered 500 after click_count + 1 raised, and the link
\* record is as created.
C19_Witness ==
    /\ InitEmailTracking["t2"].open_count = None
    /\ \E q \in Answered : OpenFor(q, "t2") /\ q.outcome = "updated"
    /\ email_tracking["t2"].open_count = Some(1)
    /\ InitLinkTracking["l2"].click_count = None
    /\ \E q \in Answered : ClickFor(q, "l2") /\ q.outcome = "type_error" /\ q.resp.status = 500
    /\ link_tracking["l2"] = InitLinkTracking["l2"]

====
